---- MODULE Spec2Model ----
(***************************************************************************)
(* Model of the portable-storage codec (xmr-rs/portable-storage):          *)
(* raw_size.rs (variable-length sizes), header.rs (the 9-byte block        *)
(* header), lib.rs (StorageEntry, Array, Section, read/write) and de.rs    *)
(* (the serde binding from_section).                                       *)
(*                                                                         *)
(* Representation.  A byte is a number in 0..255 and a buffer is a         *)
(* sequence of bytes (the unread part of a Bytes, or the contents of a     *)
(* BytesMut).  A fixed-width machine integer (u8 .. u64, i8 .. i64, the    *)
(* bits of an f64, a usize on a 64-bit target) is the sequence of its      *)
(* base-256 digits, most significant first, two's complement for the       *)
(* signed types: 2^62 does not fit TLC's integers, and the digit   *)
(* form keeps every width exact.  A String is the sequence of its UTF-8    *)
(* bytes.                                                                  *)
(***************************************************************************)
EXTENDS Integers, Sequences, FiniteSets, TLC

VARIABLES
    val,      \* the u64 handed to raw_size::write
    buf,      \* the byte buffer an operation reads from
    section,  \* the Section the caller holds
    array,    \* the Array the caller holds
    target,   \* the Deserializer method the target type of from_section requests
    res       \* the outcome of the last operation

vars == <<val, buf, section, array, target, res>>

(***************************************************************************)
(* Machine integers as digit sequences                                     *)
(***************************************************************************)
Byte == 0..255

RECURSIVE Reverse(_)
Reverse(s) == IF s = <<>> THEN <<>> ELSE Reverse(Tail(s)) \o <<Head(s)>>

\* n zero digits
Zeros(n) == [i \in 1..n |-> 0]

\* `x as u64` / `x as usize` for a small non-negative number x (x < 2^31)
U64(x) == <<0, 0, 0, 0, (x \div 16777216) % 256, (x \div 65536) % 256,
            (x \div 256) % 256, x % 256>>

\* `v as uN` for a wider v: the low n digits
Truncate(v, n) == SubSeq(v, Len(v) - n + 1, Len(v))

\* `v as u64` for a narrower v: zero extension
Extend(v) == Zeros(8 - Len(v)) \o v

\* v << 2 in the width of v
Shl2(v) ==
    [i \in 1..Len(v) |->
        ((v[i] * 4) % 256) + (IF i < Len(v) THEN v[i + 1] \div 64 ELSE 0)]

\* v >> 2 in the width of v
Shr2(v) ==
    [i \in 1..Len(v) |->
        (v[i] \div 4) + (IF i > 1 THEN (v[i - 1] % 4) * 64 ELSE 0)]

\* bitwise or of two numbers below 4
Or2(a, b) ==
    2 * (IF (a \div 2) = 1 \/ (b \div 2) = 1 THEN 1 ELSE 0)
      + (IF (a % 2) = 1 \/ (b % 2) = 1 THEN 1 ELSE 0)

\* v | m for a mark m below 4
OrMark(v, m) ==
    [i \in 1..Len(v) |->
        IF i = Len(v) THEN (v[i] \div 4) * 4 + Or2(v[i] % 4, m) ELSE v[i]]

\* a < b and a <= b for unsigned integers of one width
RECURSIVE Lt(_, _)
Lt(a, b) ==
    IF a = <<>> THEN FALSE
    ELSE IF Head(a) # Head(b) THEN Head(a) < Head(b)
    ELSE Lt(Tail(a), Tail(b))

Le(a, b) == a = b \/ Lt(a, b)

(***************************************************************************)
(* bytes::Buf and bytes::BufMut                                            *)
(*                                                                         *)
(* A reader works on a cursor [bytes, log]: the unread bytes, and a log    *)
(* of what the reader has stored and allocated so far (an observation of   *)
(* the run; no operation reads it).  A read yields [st |-> "Ok", v, buf]   *)
(* with the value and the cursor after it, [st |-> "Err", err, buf] or     *)
(* [st |-> "Panic"].  The get_* methods of Buf, Buf::advance and slice     *)
(* indexing panic when the buffer holds fewer bytes than they take.  A     *)
(* writer works on [panic, bytes]: the BytesMut contents, and whether the  *)
(* writer has panicked.                                                    *)
(***************************************************************************)
Bytes(s) == [bytes |-> s, log |-> <<>>]

Ok(v, b) == [st |-> "Ok", v |-> v, buf |-> b]
Err(e, b) == [st |-> "Err", err |-> e, buf |-> b]
Panic == [st |-> "Panic"]

UnexpectedEof(n) == [kind |-> "UnexpectedEof", needed |-> n]
InvalidHeader == [kind |-> "InvalidHeader"]
InvalidSerializeType(t) == [kind |-> "InvalidSerializeType", t |-> t]
InvalidArrayType(t) == [kind |-> "InvalidArrayType", t |-> t]
StorageEntryTooBig(n) == [kind |-> "StorageEntryTooBig", n |-> n]
WrongTypeSequence == [kind |-> "WrongTypeSequence"]

remaining(b) == Len(b.bytes)

\* ensure_eof!(buf, needed) for a usize `needed`: TRUE when the macro returns the error
ensure_eof(b, needed) == Lt(U64(remaining(b)), needed)

\* Buf::advance(n)
advance(b, n) == [b EXCEPT !.bytes = SubSeq(@, n + 1, Len(@))]

\* get_u8, get_u16_le, get_u32_le, get_u64_le (and the signed and f64 forms,
\* which read the same bytes): n little-endian bytes, or a panic
get_le(b, n) ==
    IF remaining(b) < n THEN Panic
    ELSE Ok(Reverse(SubSeq(b.bytes, 1, n)), advance(b, n))

\* a usize that is at most the length of a buffer, as a number
Index(v) == v[8] + 256 * v[7] + 65536 * v[6] + 16777216 * v[5]

\* `&buf.bytes()[..length]` and then `buf.advance(length)`, for a usize length:
\* the slice, or a panic when the buffer is shorter
take(b, length) ==
    IF Lt(U64(remaining(b)), length) THEN Panic
    ELSE Ok(SubSeq(b.bytes, 1, Index(length)), advance(b, Index(length)))

\* the log entry of an allocation of `cap` bytes with the given cursor
Allocated(b, cap) ==
    [b EXCEPT !.log = Append(@, [ev |-> "alloc", cap |-> cap, left |-> remaining(b)])]

\* the log entry of one completed loop iteration, which began at cursor b0 and
\* stored one entry or element
Stored(b, b0) ==
    [b EXCEPT !.log = Append(@, [ev |-> "store", before |-> remaining(b0),
                                   after |-> remaining(b)])]

BytesMut == [panic |-> FALSE, bytes |-> <<>>]

\* put_u8, put_u16_le, ... : the digits of v, least significant first
put_le(w, v) ==
    IF w.panic THEN w ELSE [w EXCEPT !.bytes = @ \o Reverse(v)]

\* BufMut::put(&[u8])
put(w, s) ==
    IF w.panic THEN w ELSE [w EXCEPT !.bytes = @ \o s]

(***************************************************************************)
(* raw_size.rs                                                             *)
(***************************************************************************)
MARK_MASK == 3
MARK_U8 == 0
MARK_U16 == 1
MARK_U32 == 2
MARK_U64 == 3

U8_MAX == <<0, 0, 0, 0, 0, 0, 0, 63>>
U16_MAX == <<0, 0, 0, 0, 0, 0, 63, 255>>
U32_MAX == <<0, 0, 0, 0, 63, 255, 255, 255>>
U64_MAX == <<63, 255, 255, 255, 255, 255, 255, 255>>

\* one arm of raw_size::read: ensure_eof!(buf, n), then get_uN_le() >> 2 as u64
raw_size_arm(b, n) ==
    IF n > 1 /\ ensure_eof(b, U64(n)) THEN Err(UnexpectedEof(U64(n)), b)
    ELSE LET g == get_le(b, n)
         IN  IF g.st # "Ok" THEN g ELSE Ok(Extend(Shr2(g.v)), g.buf)

raw_size_read(b) ==
    IF ensure_eof(b, U64(1)) THEN Err(UnexpectedEof(U64(1)), b)
    ELSE LET mark == b.bytes[1] % (MARK_MASK + 1)
         IN  IF mark = MARK_U8 THEN raw_size_arm(b, 1)
             ELSE IF mark = MARK_U16 THEN raw_size_arm(b, 2)
             ELSE IF mark = MARK_U32 THEN raw_size_arm(b, 4)
             ELSE raw_size_arm(b, 8)

\* raw_size::write with `<` in the place of each `<=`, for comparison
raw_size_write_strict(w, v) ==
    IF w.panic THEN w
    ELSE IF Lt(v, U8_MAX) THEN put_le(w, OrMark(Shl2(Truncate(v, 1)), MARK_U8))
    ELSE IF Lt(v, U16_MAX) THEN put_le(w, OrMark(Shl2(Truncate(v, 2)), MARK_U16))
    ELSE IF Lt(v, U32_MAX) THEN put_le(w, OrMark(Shl2(Truncate(v, 4)), MARK_U32))
    ELSE IF Lt(v, U64_MAX) THEN put_le(w, OrMark(Shl2(Truncate(v, 8)), MARK_U64))
    ELSE [w EXCEPT !.panic = TRUE]

\* raw_size::write without the final test, the shift dropping the two high bits of
\* a value that is too big, for comparison
raw_size_write_wrapping(w, v) ==
    IF w.panic THEN w
    ELSE IF Le(v, U8_MAX) THEN put_le(w, OrMark(Shl2(Truncate(v, 1)), MARK_U8))
    ELSE IF Le(v, U16_MAX) THEN put_le(w, OrMark(Shl2(Truncate(v, 2)), MARK_U16))
    ELSE IF Le(v, U32_MAX) THEN put_le(w, OrMark(Shl2(Truncate(v, 4)), MARK_U32))
    ELSE put_le(w, OrMark(Shl2(Truncate(v, 8)), MARK_U64))

raw_size_write(w, v) ==
    IF w.panic THEN w
    ELSE IF Le(v, U8_MAX) THEN put_le(w, OrMark(Shl2(Truncate(v, 1)), MARK_U8))
    ELSE IF Le(v, U16_MAX) THEN put_le(w, OrMark(Shl2(Truncate(v, 2)), MARK_U16))
    ELSE IF Le(v, U32_MAX) THEN put_le(w, OrMark(Shl2(Truncate(v, 4)), MARK_U32))
    ELSE IF Le(v, U64_MAX) THEN put_le(w, OrMark(Shl2(Truncate(v, 8)), MARK_U64))
    ELSE [w EXCEPT !.panic = TRUE]

(***************************************************************************)
(* header.rs                                                               *)
(***************************************************************************)
PORTABLE_STORAGE_SIGNATUREA == <<1, 1, 17, 1>>
PORTABLE_STORAGE_SIGNATUREB == <<1, 2, 1, 1>>
PORTABLE_STORAGE_FORMAT_VER == <<1>>
PORTABLE_STORAGE_BLOCK_HEADER_LENGTH == 4 + 4 + 1

is_valid_signature_a(hdr) == hdr.signature_a = PORTABLE_STORAGE_SIGNATUREA

is_valid_signature_b(hdr) == hdr.signature_a = PORTABLE_STORAGE_SIGNATUREB

is_valid_version(hdr) == hdr.version = PORTABLE_STORAGE_FORMAT_VER

StorageBlockHeader_read(b) ==
    IF ensure_eof(b, U64(PORTABLE_STORAGE_BLOCK_HEADER_LENGTH))
    THEN Err(UnexpectedEof(U64(PORTABLE_STORAGE_BLOCK_HEADER_LENGTH)), b)
    ELSE LET a == get_le(b, 4)
         IN  IF a.st # "Ok" THEN a
             ELSE LET sb == get_le(a.buf, 4)
                  IN  IF sb.st # "Ok" THEN sb
                      ELSE LET ver == get_le(sb.buf, 1)
                           IN  IF ver.st # "Ok" THEN ver
                               ELSE LET hdr == [signature_a |-> a.v,
                                                signature_b |-> sb.v,
                                                version |-> ver.v]
                                    IN  IF (is_valid_signature_a(hdr)
                                               \/ is_valid_signature_b(hdr))
                                           /\ is_valid_version(hdr)
                                        THEN Ok(hdr, ver.buf)
                                        ELSE Err(InvalidHeader, ver.buf)

StorageBlockHeader_write(w) ==
    put_le(put_le(put_le(w, PORTABLE_STORAGE_SIGNATUREA),
                  PORTABLE_STORAGE_SIGNATUREB),
           PORTABLE_STORAGE_FORMAT_VER)

(***************************************************************************)
(* String::from_utf8_lossy (std), as read_name uses it: every maximal      *)
(* ill-formed part of the bytes becomes U+FFFD (EF BF BD); well-formed     *)
(* UTF-8 is kept as it is.                                                 *)
(***************************************************************************)
REPLACEMENT == <<239, 191, 189>>

utf8_char_width(x) ==
    IF x < 128 THEN 1
    ELSE IF x \in 194..223 THEN 2
    ELSE IF x \in 224..239 THEN 3
    ELSE IF x \in 240..244 THEN 4
    ELSE 0

safe_get(s, i) == IF i <= Len(s) THEN s[i] ELSE 0

IsCont(x) == x \in 128..191

Second3(first, x) ==
    \/ first = 224 /\ x \in 160..191
    \/ first \in 225..236 /\ x \in 128..191
    \/ first = 237 /\ x \in 128..159
    \/ first \in 238..239 /\ x \in 128..191

Second4(first, x) ==
    \/ first = 240 /\ x \in 144..191
    \/ first \in 241..243 /\ x \in 128..191
    \/ first = 244 /\ x \in 128..143

\* the chunk that starts at s[i]: [ok |-> TRUE, n] a well-formed character of n
\* bytes, [ok |-> FALSE, n] an ill-formed part of n bytes
Utf8Chunk(s, i) ==
    LET w == utf8_char_width(s[i])
    IN  IF w = 1 THEN [ok |-> TRUE, n |-> 1]
        ELSE IF w = 2
        THEN IF IsCont(safe_get(s, i + 1)) THEN [ok |-> TRUE, n |-> 2]
             ELSE [ok |-> FALSE, n |-> 1]
        ELSE IF w = 3
        THEN IF ~Second3(s[i], safe_get(s, i + 1)) THEN [ok |-> FALSE, n |-> 1]
             ELSE IF ~IsCont(safe_get(s, i + 2)) THEN [ok |-> FALSE, n |-> 2]
             ELSE [ok |-> TRUE, n |-> 3]
        ELSE IF w = 4
        THEN IF ~Second4(s[i], safe_get(s, i + 1)) THEN [ok |-> FALSE, n |-> 1]
             ELSE IF ~IsCont(safe_get(s, i + 2)) THEN [ok |-> FALSE, n |-> 2]
             ELSE IF ~IsCont(safe_get(s, i + 3)) THEN [ok |-> FALSE, n |-> 3]
             ELSE [ok |-> TRUE, n |-> 4]
        ELSE [ok |-> FALSE, n |-> 1]

RECURSIVE from_utf8_lossy_at(_, _)
from_utf8_lossy_at(s, i) ==
    IF i > Len(s) THEN <<>>
    ELSE LET c == Utf8Chunk(s, i)
         IN  (IF c.ok THEN SubSeq(s, i, i + c.n - 1) ELSE REPLACEMENT)
                 \o from_utf8_lossy_at(s, i + c.n)

from_utf8_lossy(s) == from_utf8_lossy_at(s, 1)

(***************************************************************************)
(* lib.rs: StorageEntry, Array, Section                                    *)
(*                                                                         *)
(* A StorageEntry is a record of the variant's name, tag, and its payload:  *)
(* num (the digits of a number), bool, bytes (of a Buf), arr (an Array) or *)
(* sec (a Section).  An Array is [array, serialize_type], the Option<u8>   *)
(* being <<>> for None and <<t>> for Some(t).  A Section is [entries], the *)
(* LinkedHashMap being the sequence of its [name, entry] pairs in          *)
(* iteration order, no name twice.                                         *)
(***************************************************************************)
SERIALIZE_TYPE_INT64 == 1
SERIALIZE_TYPE_INT32 == 2
SERIALIZE_TYPE_INT16 == 3
SERIALIZE_TYPE_INT8 == 4
SERIALIZE_TYPE_UINT64 == 5
SERIALIZE_TYPE_UINT32 == 6
SERIALIZE_TYPE_UINT16 == 7
SERIALIZE_TYPE_UINT8 == 8
SERIALIZE_TYPE_DOUBLE == 9
SERIALIZE_TYPE_STRING == 10
SERIALIZE_TYPE_BOOL == 11
SERIALIZE_TYPE_OBJECT == 12
SERIALIZE_TYPE_ARRAY == 13
SERIALIZE_FLAG_ARRAY == 128

None == <<>>
Some(x) == <<x>>

\* t & SERIALIZE_FLAG_ARRAY, t & !SERIALIZE_FLAG_ARRAY and t | SERIALIZE_FLAG_ARRAY
\* for a byte t (the flag is one bit)
AndFlag(t) == ((t \div SERIALIZE_FLAG_ARRAY) % 2) * SERIALIZE_FLAG_ARRAY
AndNotFlag(t) == t - AndFlag(t)
OrFlag(t) == AndNotFlag(t) + SERIALIZE_FLAG_ARRAY

\* StorageEntry::U64(v), ..., StorageEntry::I8(v), StorageEntry::Double(v)
Scalar(tag, v) == [tag |-> tag, num |-> v]
\* StorageEntry::Bool(v)
Bool(v) == [tag |-> "Bool", bool |-> v]
\* StorageEntry::Buf(v)
Buf(v) == [tag |-> "Buf", bytes |-> v]
\* StorageEntry::Array(v)
ArrayEntry(v) == [tag |-> "Array", arr |-> v]
\* StorageEntry::Section(v)
SectionEntry(v) == [tag |-> "Section", sec |-> v]

serialize_type(entry) ==
    CASE entry.tag = "U64" -> SERIALIZE_TYPE_UINT64
      [] entry.tag = "U32" -> SERIALIZE_TYPE_UINT32
      [] entry.tag = "U16" -> SERIALIZE_TYPE_UINT16
      [] entry.tag = "U8" -> SERIALIZE_TYPE_UINT8
      [] entry.tag = "I64" -> SERIALIZE_TYPE_INT64
      [] entry.tag = "I32" -> SERIALIZE_TYPE_INT32
      [] entry.tag = "I16" -> SERIALIZE_TYPE_INT16
      [] entry.tag = "I8" -> SERIALIZE_TYPE_INT8
      [] entry.tag = "Double" -> SERIALIZE_TYPE_DOUBLE
      [] entry.tag = "Bool" -> SERIALIZE_TYPE_BOOL
      [] entry.tag = "Buf" -> SERIALIZE_TYPE_STRING
      [] entry.tag = "Array" -> SERIALIZE_TYPE_ARRAY
      [] entry.tag = "Section" -> SERIALIZE_TYPE_OBJECT

Array_new == [array |-> <<>>, serialize_type |-> None]

Array_with_capacity(capacity) == [array |-> <<>>, serialize_type |-> None]

\* Array::push recording the element type without the array flag, for comparison
Array_push_unflagged(self, entry) ==
    IF self.serialize_type # None
          /\ AndFlag(self.serialize_type[1]) # serialize_type(entry)
    THEN [ok |-> FALSE, array |-> self]
    ELSE [ok |-> TRUE,
          array |-> [array |-> Append(self.array, entry),
                     serialize_type |->
                         IF self.serialize_type # None THEN self.serialize_type
                         ELSE Some(serialize_type(entry))]]

\* Array::push: [ok, array], the result and the array after the call.  In Rust
\* `&` binds tighter than `!=`.
Array_push(self, entry) ==
    IF self.serialize_type # None
          /\ AndFlag(self.serialize_type[1]) # serialize_type(entry)
    THEN [ok |-> FALSE, array |-> self]
    ELSE [ok |-> TRUE,
          array |-> [array |-> Append(self.array, entry),
                     serialize_type |->
                         IF self.serialize_type # None THEN self.serialize_type
                         ELSE Some(OrFlag(serialize_type(entry)))]]

Section_new == [entries |-> <<>>]

Section_with_capacity(capacity) == [entries |-> <<>>]

\* an insert that leaves an existing key as it is, for comparison
LinkedHashMap_insert_first(entries, name, entry) ==
    IF \E i \in 1..Len(entries) : entries[i].name = name THEN entries
    ELSE Append(entries, [name |-> name, entry |-> entry])

\* LinkedHashMap::insert: a new key is appended; an existing key takes the new
\* value and moves to the back of the iteration order
LinkedHashMap_insert(entries, name, entry) ==
    LET others == SelectSeq(entries, LAMBDA e : e.name # name)
    IN  Append(others, [name |-> name, entry |-> entry])

Section_insert(self, name, entry) ==
    [entries |-> LinkedHashMap_insert(self.entries, name, entry)]

\* usize::try_from(u64) on a 64-bit target: every u64 is a usize
usize_try_from(v) == [ok |-> TRUE, v |-> v]

\* raw_size::read(buf).and_then(|n| usize::try_from(n).map_err(|_| StorageEntryTooBig(n)))
read_size(b) ==
    LET r == raw_size_read(b)
    IN  IF r.st # "Ok" THEN r
        ELSE IF usize_try_from(r.v).ok THEN Ok(usize_try_from(r.v).v, r.buf)
        ELSE Err(StorageEntryTooBig(r.v), r.buf)

\* read_name without its second ensure_eof!, for comparison
read_name_unchecked(b) ==
    IF ensure_eof(b, U64(1)) THEN Err(UnexpectedEof(U64(1)), b)
    ELSE LET g == get_le(b, 1)
         IN  IF g.st # "Ok" THEN g
             ELSE LET length == Extend(g.v)
                  IN  LET t == take(Allocated(g.buf, length), length)
                      IN  IF t.st # "Ok" THEN t
                          ELSE Ok(from_utf8_lossy(t.v), t.buf)

read_name(b) ==
    IF ensure_eof(b, U64(1)) THEN Err(UnexpectedEof(U64(1)), b)
    ELSE LET g == get_le(b, 1)
         IN  IF g.st # "Ok" THEN g
             ELSE LET length == Extend(g.v)
                  IN  IF ensure_eof(g.buf, length)
                      THEN Err(UnexpectedEof(length), g.buf)
                      ELSE LET t == take(Allocated(g.buf, length), length)
                           IN  IF t.st # "Ok" THEN t
                               ELSE Ok(from_utf8_lossy(t.v), t.buf)

read_buf(b) ==
    LET r == read_size(b)
    IN  IF r.st # "Ok" THEN r
        ELSE IF ensure_eof(r.buf, r.v) THEN Err(UnexpectedEof(r.v), r.buf)
        ELSE take(Allocated(r.buf, r.v), r.v)

\* one fixed-width arm of read_entry_raw: ensure_eof!(buf, n), then a get of n bytes
read_fixed(b, n, tag) ==
    IF ensure_eof(b, U64(n)) THEN Err(UnexpectedEof(U64(n)), b)
    ELSE LET g == get_le(b, n)
         IN  IF g.st # "Ok" THEN g ELSE Ok(Scalar(tag, g.v), g.buf)

RECURSIVE StorageEntry_read(_)
RECURSIVE read_entry_raw(_, _)
RECURSIVE Array_read(_, _)
RECURSIVE Array_read_loop(_, _, _, _, _)
RECURSIVE Section_read(_)
RECURSIVE Section_read_loop(_, _, _, _)

\* `let arr = Array::read(..)?; StorageEntry::Array(arr)`
ArrayResult(arr) ==
    IF arr.st # "Ok" THEN arr ELSE Ok(ArrayEntry(arr.v), arr.buf)

\* `StorageEntry::Section(Section::read(buf)?)`
SectionResult(r) ==
    IF r.st # "Ok" THEN r ELSE Ok(SectionEntry(r.v), r.buf)

\* StorageEntry::read once the type byte g has been taken
StorageEntry_read_typed(g) ==
    IF g.st # "Ok" THEN g
    ELSE IF AndFlag(g.v[1]) = SERIALIZE_FLAG_ARRAY
    THEN ArrayResult(Array_read(g.buf, g.v[1]))
    ELSE read_entry_raw(g.buf, g.v[1])

StorageEntry_read(b) ==
    IF ensure_eof(b, U64(1)) THEN Err(UnexpectedEof(U64(1)), b)
    ELSE StorageEntry_read_typed(get_le(b, 1))

\* the SERIALIZE_TYPE_ARRAY arm handing Array::read the element type with the
\* array flag already cleared, for comparison
read_entry_raw_array_masked(g) ==
    IF g.st # "Ok" THEN g
    ELSE IF AndFlag(g.v[1]) # SERIALIZE_FLAG_ARRAY THEN Err(WrongTypeSequence, g.buf)
    ELSE ArrayResult(Array_read(g.buf, AndNotFlag(g.v[1])))

\* the SERIALIZE_TYPE_ARRAY arm of read_entry_raw once the type byte g has been taken
read_entry_raw_array(g) ==
    IF g.st # "Ok" THEN g
    ELSE IF AndFlag(g.v[1]) # SERIALIZE_FLAG_ARRAY THEN Err(WrongTypeSequence, g.buf)
    ELSE ArrayResult(Array_read(g.buf, g.v[1]))

\* the SERIALIZE_TYPE_STRING arm of read_entry_raw
read_entry_raw_string(r) ==
    IF r.st # "Ok" THEN r ELSE Ok(Buf(r.v), r.buf)

\* the SERIALIZE_TYPE_BOOL arm of read_entry_raw once the byte g has been taken
read_entry_raw_bool(g) ==
    IF g.st # "Ok" THEN g ELSE Ok(Bool(g.v[1] # 0), g.buf)

read_entry_raw(b, type) ==
    CASE type = SERIALIZE_TYPE_INT64 -> read_fixed(b, 8, "I64")
      [] type = SERIALIZE_TYPE_INT32 -> read_fixed(b, 4, "I32")
      [] type = SERIALIZE_TYPE_INT16 -> read_fixed(b, 2, "I16")
      [] type = SERIALIZE_TYPE_INT8 -> read_fixed(b, 1, "I8")
      [] type = SERIALIZE_TYPE_UINT64 -> read_fixed(b, 8, "U64")
      [] type = SERIALIZE_TYPE_UINT32 -> read_fixed(b, 4, "U32")
      [] type = SERIALIZE_TYPE_UINT16 -> read_fixed(b, 2, "U16")
      [] type = SERIALIZE_TYPE_UINT8 -> read_fixed(b, 1, "U8")
      [] type = SERIALIZE_TYPE_DOUBLE -> read_fixed(b, 8, "Double")
      [] type = SERIALIZE_TYPE_STRING -> read_entry_raw_string(read_buf(b))
      [] type = SERIALIZE_TYPE_BOOL ->
            IF ensure_eof(b, U64(1)) THEN Err(UnexpectedEof(U64(1)), b)
            ELSE read_entry_raw_bool(get_le(b, 1))
      [] type = SERIALIZE_TYPE_OBJECT -> SectionResult(Section_read(b))
      [] type = SERIALIZE_TYPE_ARRAY ->
            IF ensure_eof(b, U64(1)) THEN Err(UnexpectedEof(U64(1)), b)
            ELSE read_entry_raw_array(get_le(b, 1))
      [] OTHER -> Err(InvalidSerializeType(type), b)

\* Array::read once the size has been read: the empty Array of the declared type,
\* then the loop
Array_read_sized(size, orig_serialize_type) ==
    IF size.st # "Ok" THEN size
    ELSE Array_read_loop(size.buf, AndNotFlag(orig_serialize_type), 0, size.v,
                         [array |-> <<>>, serialize_type |-> Some(orig_serialize_type)])

Array_read(b, orig_serialize_type) ==
    IF AndFlag(orig_serialize_type) # SERIALIZE_FLAG_ARRAY
    THEN Err(InvalidArrayType(orig_serialize_type), b)
    ELSE Array_read_sized(read_size(b), orig_serialize_type)

\* `array.array.push(r?)` for the element r read in the i-th iteration, which began
\* at cursor b0, and then the rest of the loop
Array_read_push(r, b0, type, i, size, arr) ==
    IF r.st # "Ok" THEN r
    ELSE Array_read_loop(Stored(r.buf, b0), type, i + 1, size,
                         [arr EXCEPT !.array = Append(@, r.v)])

\* `for _ in 0..size { array.array.push(read_entry_raw(buf, serialize_type)?) }`
\* from its i-th iteration on
Array_read_loop(b, type, i, size, arr) ==
    IF ~Lt(U64(i), size) THEN Ok(arr, b)
    ELSE Array_read_push(read_entry_raw(b, type), b, type, i, size, arr)

\* Section::read with `section.entries.reserve(count)` in force, for comparison
Section_read_reserving(count) ==
    IF count.st # "Ok" THEN count
    ELSE Section_read_loop(Allocated(count.buf, count.v), 0, count.v, Section_new)

\* Section::read once the count has been read
Section_read_counted(count) ==
    IF count.st # "Ok" THEN count
    ELSE Section_read_loop(count.buf, 0, count.v, Section_new)

Section_read(b) == Section_read_counted(read_size(b))

\* `section.entries.insert(name.clone(), entry?)` in the i-th iteration, which began
\* at cursor b0, and then the rest of the loop
Section_read_insert(entry, name, b0, i, count, sec) ==
    IF entry.st # "Ok" THEN entry
    ELSE Section_read_loop(Stored(entry.buf, b0), i + 1, count,
                           [entries |-> LinkedHashMap_insert(sec.entries, name, entry.v)])

\* `let entry = StorageEntry::read(buf)?` after `let name = read_name(buf)?`
Section_read_named(name, b0, i, count, sec) ==
    IF name.st # "Ok" THEN name
    ELSE Section_read_insert(StorageEntry_read(name.buf), name.v, b0, i, count, sec)

\* `for _ in 0..count { name = read_name(buf)?; entry = StorageEntry::read(buf)?;
\* section.entries.insert(name.clone(), entry) }` from its i-th iteration on
Section_read_loop(b, i, count, sec) ==
    IF ~Lt(U64(i), count) THEN Ok(sec, b)
    ELSE Section_read_named(read_name(b), b, i, count, sec)

read(b) ==
    LET hdr == StorageBlockHeader_read(b)
    IN  IF hdr.st # "Ok" THEN hdr ELSE Section_read(hdr.buf)

write_buf(w, s) == put(raw_size_write(w, U64(Len(s))), s)

\* the name's length `as u8`, then the name
write_name(w, name) == put(put_le(w, <<Len(name) % 256>>), name)

RECURSIVE StorageEntry_write(_, _)
RECURSIVE Array_write(_, _)
RECURSIVE Array_write_loop(_, _)
RECURSIVE Section_write(_, _)
RECURSIVE Section_write_loop(_, _)

StorageEntry_write(w, entry) ==
    CASE entry.tag = "U64" -> put_le(put_le(w, <<SERIALIZE_TYPE_UINT64>>), entry.num)
      [] entry.tag = "U32" -> put_le(put_le(w, <<SERIALIZE_TYPE_UINT32>>), entry.num)
      [] entry.tag = "U16" -> put_le(put_le(w, <<SERIALIZE_TYPE_UINT16>>), entry.num)
      [] entry.tag = "U8" -> put_le(put_le(w, <<SERIALIZE_TYPE_UINT8>>), entry.num)
      [] entry.tag = "I64" -> put_le(put_le(w, <<SERIALIZE_TYPE_INT64>>), entry.num)
      [] entry.tag = "I32" -> put_le(put_le(w, <<SERIALIZE_TYPE_INT32>>), entry.num)
      [] entry.tag = "I16" -> put_le(put_le(w, <<SERIALIZE_TYPE_INT16>>), entry.num)
      [] entry.tag = "I8" -> put_le(put_le(w, <<SERIALIZE_TYPE_INT8>>), entry.num)
      [] entry.tag = "Double" -> put_le(put_le(w, <<SERIALIZE_TYPE_DOUBLE>>), entry.num)
      [] entry.tag = "Bool" ->
            put_le(put_le(w, <<SERIALIZE_TYPE_BOOL>>), IF ~entry.bool THEN <<0>> ELSE <<1>>)
      [] entry.tag = "Buf" -> write_buf(put_le(w, <<SERIALIZE_TYPE_STRING>>), entry.bytes)
      [] entry.tag = "Array" -> Array_write(put_le(w, <<SERIALIZE_TYPE_ARRAY>>), entry.arr)
      [] entry.tag = "Section" ->
            Section_write(put_le(w, <<SERIALIZE_TYPE_OBJECT>>), entry.sec)

\* `array.serialize_type.unwrap()` panics on None
Array_write(w, arr) ==
    IF w.panic THEN w
    ELSE IF arr.serialize_type = None THEN [w EXCEPT !.panic = TRUE]
    ELSE Array_write_loop(
             raw_size_write(put_le(w, arr.serialize_type), U64(Len(arr.array))),
             arr.array)

\* `for entry in array.array.iter() { StorageEntry::write(buf, &entry) }`
Array_write_loop(w, entries) ==
    IF entries = <<>> THEN w
    ELSE Array_write_loop(StorageEntry_write(w, Head(entries)), Tail(entries))

Section_write(w, sec) ==
    Section_write_loop(raw_size_write(w, U64(Len(sec.entries))), sec.entries)

\* `for (name, entry) in section.entries.iter() { write_name; StorageEntry::write }`
Section_write_loop(w, entries) ==
    IF entries = <<>> THEN w
    ELSE Section_write_loop(
             StorageEntry_write(write_name(w, Head(entries).name), Head(entries).entry),
             Tail(entries))

write(w, sec) == Section_write(StorageBlockHeader_write(w), sec)

(***************************************************************************)
(* de.rs: from_section                                                     *)
(*                                                                         *)
(* T::deserialize(SectionDeserializer(section)) calls the one Deserializer *)
(* method the target type T requests; `method` names it without its        *)
(* deserialize_ prefix.  The outcome is either the visitor entry point     *)
(* driven, with the MapDeserializer handed to it, or a Custom error.       *)
(***************************************************************************)
DeserializerMethods ==
    {"any", "bool", "i8", "i16", "i32", "i64", "u8", "u16", "u32", "u64", "f32",
     "f64", "char", "str", "string", "bytes", "byte_buf", "option", "unit",
     "unit_struct", "newtype_struct", "seq", "tuple", "tuple_struct", "map",
     "struct", "enum", "identifier", "ignored_any"}

\* Error::custom(concat!("`", stringify!($method), "` isn't supported"))
Custom(method) ==
    [st |-> "Err",
     err |-> [kind |-> "Custom", msg |-> <<"`deserialize_", method, "` isn't supported">>]]

\* the methods the unsupported! macro implements
unsupported ==
    {"any", "bool", "i8", "i16", "i32", "i64", "u8", "u16", "u32", "u64", "f32",
     "f64", "char", "str", "string", "bytes", "byte_buf", "option", "unit", "seq",
     "map", "identifier", "ignored_any"}

MapDeserializer(sec) == [iter |-> sec.entries, value |-> None]

SectionDeserializer_deserialize(sec, method) ==
    IF method \in unsupported THEN Custom(method)
    ELSE IF method \in {"unit_struct", "newtype_struct", "tuple", "tuple_struct", "enum"}
    THEN Custom(method)
    ELSE [st |-> "Visited", visit |-> "visit_map", map |-> MapDeserializer(sec)]

from_section(sec, method) == SectionDeserializer_deserialize(sec, method)

\* Error::custom(msg)
Error_custom(msg) == [st |-> "Err", err |-> [kind |-> "Custom", msg |-> <<msg>>]]

\* KeyDeserializer::deserialize_any: visitor.visit_str(self.key.as_str())
KeyDeserializer_deserialize_any(key) == [visit |-> "visit_str", key |-> key]

\* ArrayDeserializer(v.into_iter())
ArrayDeserializer(arr) == [iter |-> arr.array]

\* StorageEntryDeserializer::deserialize_any: the visitor entry point called and what
\* it is handed; every other deserialize_ method forwards here
StorageEntryDeserializer_deserialize_any(entry) ==
    CASE entry.tag = "U64" -> [visit |-> "visit_u64", num |-> entry.num]
      [] entry.tag = "U32" -> [visit |-> "visit_u32", num |-> entry.num]
      [] entry.tag = "U16" -> [visit |-> "visit_u16", num |-> entry.num]
      [] entry.tag = "U8" -> [visit |-> "visit_u8", num |-> entry.num]
      [] entry.tag = "I64" -> [visit |-> "visit_i64", num |-> entry.num]
      [] entry.tag = "I32" -> [visit |-> "visit_i32", num |-> entry.num]
      [] entry.tag = "I16" -> [visit |-> "visit_i16", num |-> entry.num]
      [] entry.tag = "I8" -> [visit |-> "visit_i8", num |-> entry.num]
      [] entry.tag = "Double" -> [visit |-> "visit_f64", num |-> entry.num]
      [] entry.tag = "Bool" -> [visit |-> "visit_bool", bool |-> entry.bool]
      [] entry.tag = "Buf" -> [visit |-> "visit_byte_buf", bytes |-> entry.bytes]
      [] entry.tag = "Array" -> [visit |-> "visit_seq", seq |-> ArrayDeserializer(entry.arr)]
      [] entry.tag = "Section" -> [visit |-> "visit_map", map |-> MapDeserializer(entry.sec)]

\* MapDeserializer::next_key_seed: [self, out], the MapDeserializer after the call
\* and what the call returns
next_key_seed(self) ==
    IF self.iter # <<>>
    THEN [self |-> [iter |-> Tail(self.iter), value |-> Some(Head(self.iter).entry)],
          out |-> [st |-> "Ok",
                   some |-> Some(KeyDeserializer_deserialize_any(Head(self.iter).name))]]
    ELSE [self |-> self, out |-> [st |-> "Ok", some |-> None]]

\* next_value_seed reading self.value without taking it, for comparison
next_value_seed_keeping(self) ==
    IF self.value = None
    THEN [self |-> self, out |-> Error_custom("seed value is missing")]
    ELSE [self |-> self,
          out |-> [st |-> "Ok",
                   visited |-> StorageEntryDeserializer_deserialize_any(self.value[1])]]

\* MapDeserializer::next_value_seed: [self, out]
next_value_seed(self) ==
    IF self.value = None
    THEN [self |-> self, out |-> Error_custom("seed value is missing")]
    ELSE [self |-> [self EXCEPT !.value = None],
          out |-> [st |-> "Ok",
                   visited |-> StorageEntryDeserializer_deserialize_any(self.value[1])]]

(***************************************************************************)
(* The callers: what is built, written, fed and read.  res is the outcome  *)
(* of the last operation; buf is the buffer of the last write or feed, and *)
(* a caller that goes back to building starts from an empty buffer.        *)
(***************************************************************************)
MaxNodes == 2
MaxBody == 5
MaxWireEntries == 3

\* the names the caller inserts under: "a", "b"
Names == {<<97>>, <<98>>}

\* one value of every variant that is not a container
Scalars ==
    {Scalar("U64", U64(1337)), Scalar("U32", <<222, 173, 190, 239>>),
     Scalar("U16", <<1, 2>>), Scalar("U8", <<56>>),
     Scalar("I64", <<255, 255, 255, 255, 255, 255, 255, 254>>),
     Scalar("I32", <<128, 0, 0, 1>>), Scalar("I16", <<255, 0>>), Scalar("I8", <<129>>),
     Scalar("Double", <<63, 240, 0, 0, 0, 0, 0, 1>>),
     Bool(TRUE), Buf(<<7, 0>>)}

RECURSIVE Nodes(_)
RECURSIVE NodesOf(_)
\* the number of values in a value: itself and everything below it
Nodes(entry) ==
    CASE entry.tag = "Array" -> 1 + NodesOf(entry.arr.array)
      [] entry.tag = "Section" ->
            1 + NodesOf([i \in 1..Len(entry.sec.entries) |-> entry.sec.entries[i].entry])
      [] OTHER -> 1

NodesOf(entries) ==
    IF entries = <<>> THEN 0 ELSE Nodes(Head(entries)) + NodesOf(Tail(entries))

\* the values the caller has at hand
Values == Scalars \cup {ArrayEntry(array), SectionEntry(section)}

\* the number of values the caller's Section and Array hold between them
Held(sec, arr) == Nodes(SectionEntry(sec)) + Nodes(ArrayEntry(arr)) - 2

None_res == [op |-> "none"]

\* Section::with_capacity(capacity)
SectionWithCapacity ==
    /\ \E capacity \in 0..1 : section' = Section_with_capacity(capacity)
    /\ res' = [op |-> "Section::with_capacity"]
    /\ buf' = Bytes(<<>>)
    /\ UNCHANGED <<val, array, target>>

\* Array::new()
ArrayNew ==
    /\ array' = Array_new
    /\ res' = [op |-> "Array::new"]
    /\ buf' = Bytes(<<>>)
    /\ UNCHANGED <<val, section, target>>

\* Array::with_capacity(capacity)
ArrayWithCapacity ==
    /\ \E capacity \in 0..1 : array' = Array_with_capacity(capacity)
    /\ res' = [op |-> "Array::with_capacity"]
    /\ buf' = Bytes(<<>>)
    /\ UNCHANGED <<val, section, target>>

\* array.push(entry); StorageEntry::Section(section) moves the caller's Section
\* into the entry, StorageEntry::Array(array.clone()) clones the Array
ArrayPush ==
    \E entry \in Values :
        /\ array' = Array_push(array, entry).array
        /\ section' = IF entry = SectionEntry(section) THEN Section_new ELSE section
        /\ Held(section', array') <= MaxNodes
        /\ res' = [op |-> "push", ok |-> Array_push(array, entry).ok,
                   type |-> serialize_type(entry)]
        /\ buf' = Bytes(<<>>)
        /\ UNCHANGED <<val, target>>

\* section.insert(name, entry); StorageEntry::Array(array) moves the caller's
\* Array into the entry, StorageEntry::Section(section.clone()) clones the Section
Insert ==
    \E name \in Names, entry \in Values :
        /\ section' = Section_insert(section, name, entry)
        /\ array' = IF entry = ArrayEntry(array) THEN Array_new ELSE array
        /\ Held(section', array') <= MaxNodes
        /\ res' = [op |-> "insert"]
        /\ buf' = Bytes(<<>>)
        /\ UNCHANGED <<val, target>>

\* write(&mut BytesMut::new(), &section); the buffer is then what was written
DoWrite ==
    /\ res.op \in {"none", "insert", "push", "Array::new", "Array::with_capacity",
                 "Section::with_capacity"}
    /\ LET w == write(BytesMut, section)
       IN  /\ res' = [op |-> "write", S |-> section, w |-> w]
           /\ buf' = Bytes(w.bytes)
    /\ UNCHANGED <<val, section, array, target>>

\* read(&mut buf) on a buffer that was just written or fed
DoRead ==
    /\ \/ res.op = "write" /\ ~res.w.panic
       \/ res.op = "feed"
    /\ LET r == read(buf)
       IN  /\ res' = [op |-> "read", from |-> res, input |-> buf.bytes, r |-> r]
           /\ buf' = IF r.st = "Panic" THEN buf ELSE r.buf
    /\ UNCHANGED <<val, section, array, target>>

\* write(&mut BytesMut::new(), &s) of the Section s that read returned
DoRewrite ==
    /\ res.op = "read"
    /\ res.r.st = "Ok"
    /\ res' = [op |-> "rewrite", from |-> res, w |-> write(BytesMut, res.r.v)]
    /\ UNCHANGED <<val, buf, section, array, target>>

InitTree ==
    /\ val = U64(0)
    /\ buf = Bytes(<<>>)
    /\ section = Section_new
    /\ array = Array_new
    /\ target = "struct"
    /\ res = None_res

NextTree ==
    \/ SectionWithCapacity
    \/ ArrayNew
    \/ ArrayWithCapacity
    \/ ArrayPush
    \/ Insert
    \/ DoWrite
    \/ DoRead
    \/ DoRewrite

\* trees built through the public constructors, written, read back, written again
SpecTree == InitTree /\ [][NextTree]_vars

(***************************************************************************)
(* raw_size on its own: a value is written, the caller may put further     *)
(* bytes behind it, and the size is read back.                             *)
(***************************************************************************)
MaxTrail == 1

\* the u64 values: every digit at, just below or just above a width's limit
RawValues == [1..8 -> {0, 63, 64, 255}]

\* raw_size::write(&mut BytesMut::new(), val)
RawSizeWrite ==
    /\ res.op = "none"
    /\ LET w == raw_size_write(BytesMut, val)
       IN  /\ res' = [op |-> "raw_size::write", w |-> w, rest |-> <<>>]
           /\ buf' = Bytes(w.bytes)
    /\ UNCHANGED <<val, section, array, target>>

\* buf.put_u8(byte) behind the size
PutU8 ==
    /\ res.op = "raw_size::write"
    /\ ~res.w.panic
    /\ Len(res.rest) < MaxTrail
    /\ \E byte \in {0, 255} :
          /\ buf' = Bytes(buf.bytes \o <<byte>>)
          /\ res' = [res EXCEPT !.rest = Append(@, byte)]
    /\ UNCHANGED <<val, section, array, target>>

\* raw_size::read(&mut buf)
RawSizeRead ==
    /\ res.op = "raw_size::write"
    /\ ~res.w.panic
    /\ LET r == raw_size_read(buf)
       IN  /\ res' = [op |-> "raw_size::read", from |-> res, r |-> r]
           /\ buf' = IF r.st = "Panic" THEN buf ELSE r.buf
    /\ UNCHANGED <<val, section, array, target>>

InitRawSize ==
    /\ val \in RawValues
    /\ buf = Bytes(<<>>)
    /\ section = Section_new
    /\ array = Array_new
    /\ target = "struct"
    /\ res = None_res

NextRawSize ==
    \/ RawSizeWrite
    \/ PutU8
    \/ RawSizeRead

SpecRawSize == InitRawSize /\ [][NextRawSize]_vars

(***************************************************************************)
(* The header on its own: StorageBlockHeader::read on nine bytes, fewer,   *)
(* or one more.                                                            *)
(***************************************************************************)
\* signatures on the wire: the two canonical values and two others
WireSignatures ==
    {PORTABLE_STORAGE_SIGNATUREA, PORTABLE_STORAGE_SIGNATUREB,
     <<255, 255, 255, 255>>, <<0, 0, 0, 0>>}

HeaderInputs ==
    {SubSeq(Reverse(a) \o Reverse(b) \o <<v, 0>>, 1, n) :
        a \in WireSignatures, b \in WireSignatures, v \in {0, 1, 2}, n \in 0..10}

\* StorageBlockHeader::read(&mut buf)
HeaderRead ==
    /\ res.op = "none"
    /\ LET r == StorageBlockHeader_read(buf)
       IN  /\ res' = [op |-> "StorageBlockHeader::read", input |-> buf.bytes, r |-> r]
           /\ buf' = IF r.st = "Panic" THEN buf ELSE r.buf
    /\ UNCHANGED <<val, section, array, target>>

InitHeader ==
    /\ val = U64(0)
    /\ buf \in {Bytes(B) : B \in HeaderInputs}
    /\ section = Section_new
    /\ array = Array_new
    /\ target = "struct"
    /\ res = None_res

NextHeader == HeaderRead

SpecHeader == InitHeader /\ [][NextHeader]_vars

(***************************************************************************)
(* Arbitrary documents: the canonical header and then up to MaxBody bytes  *)
(* of body, fed one at a time, and read at any point.                      *)
(***************************************************************************)
\* the bytes fed: sizes 0, 1 and 3, a name length, the STRING, OBJECT and ARRAY
\* types, the array-of-u8 and array-of-sections types, and a byte that begins a
\* four-byte size
WireBytes == {0, 4, 10, 12, 13, 136, 140, 254}

CanonicalHeader == StorageBlockHeader_write(BytesMut).bytes

\* the document begins with what StorageBlockHeader::write emits
PutHeader ==
    /\ res.op = "feed"
    /\ buf.bytes = <<>>
    /\ buf' = Bytes(CanonicalHeader)
    /\ UNCHANGED <<val, section, array, target, res>>

\* one more byte of body
Feed ==
    /\ res.op = "feed"
    /\ buf.bytes # <<>>
    /\ res.n < MaxBody
    /\ \E byte \in WireBytes : buf' = Bytes(buf.bytes \o <<byte>>)
    /\ res' = [op |-> "feed", n |-> res.n + 1]
    /\ UNCHANGED <<val, section, array, target>>

InitWire ==
    /\ val = U64(0)
    /\ buf = Bytes(<<>>)
    /\ section = Section_new
    /\ array = Array_new
    /\ target = "struct"
    /\ res = [op |-> "feed", n |-> 0]

NextWire ==
    \/ PutHeader
    \/ Feed
    \/ DoRead

SpecWire == InitWire /\ [][NextWire]_vars

(***************************************************************************)
(* Documents with repeated keys: a section of up to MaxWireEntries         *)
(* entries, each a one-byte name and a U8 value, read and written again.   *)
(***************************************************************************)
\* the name bytes: "k", "a", and two bytes that are no UTF-8
WireKeys == {107, 97, 254, 255}
WireVals == {1, 2}

\* one entry on the wire: name length 1, the name, the UINT8 type, the value
WireEntry(e) == <<1, e[1], SERIALIZE_TYPE_UINT8, e[2]>>

RECURSIVE Concat(_)
Concat(seqs) == IF seqs = <<>> THEN <<>> ELSE Head(seqs) \o Concat(Tail(seqs))

\* the document of a section with the given entries
WireSection(es) ==
    CanonicalHeader \o raw_size_write(BytesMut, U64(Len(es))).bytes
        \o Concat([i \in 1..Len(es) |-> WireEntry(es[i])])

WireSections ==
    {WireSection(es) :
        es \in UNION {[1..n -> WireKeys \X WireVals] : n \in 0..MaxWireEntries}}

InitDup ==
    /\ val = U64(0)
    /\ buf \in {Bytes(B) : B \in WireSections}
    /\ section = Section_new
    /\ array = Array_new
    /\ target = "struct"
    /\ res = [op |-> "feed", n |-> 0]

NextDup ==
    \/ DoRead
    \/ DoRewrite

SpecDup == InitDup /\ [][NextDup]_vars

(***************************************************************************)
(* from_section: a Section is built and handed to from_section::<T> for a  *)
(* target type T whose Deserialize impl requests the method `target`.      *)
(***************************************************************************)
\* from_section(section): the Section moves into the call
FromSection ==
    /\ res.op \in {"none", "insert"}
    /\ res' = [op |-> "from_section", S |-> section, r |-> from_section(section, target)]
    /\ section' = Section_new
    /\ UNCHANGED <<val, buf, array, target>>

InitDe ==
    /\ val = U64(0)
    /\ buf = Bytes(<<>>)
    /\ section = Section_new
    /\ array = Array_new
    /\ target \in DeserializerMethods
    /\ res = None_res

NextDe ==
    \/ Insert
    \/ FromSection

SpecDe == InitDe /\ [][NextDe]_vars

(***************************************************************************)
(* One value in the two array forms: a type byte and up to MaxPayload      *)
(* bytes behind it, decoded as they stand (the compact form when the type  *)
(* byte carries the array flag) and behind a SERIALIZE_TYPE_ARRAY tag (the *)
(* long form).                                                             *)
(***************************************************************************)
MaxPayload == 4

\* type bytes: arrays of u8, strings, sections, arrays and of the unknown type 14,
\* 0xFF, and two bytes without the array flag
FormTypes == {136, 138, 140, 141, 142, 255, 8, 13}

\* payload bytes: sizes 0, 1 and 2, a byte with the array flag, a four-byte size
FormBytes == {0, 4, 8, 136, 254}

\* one more byte behind the type byte
PutPayload ==
    /\ res.op = "put"
    /\ res.n < MaxPayload
    /\ \E byte \in FormBytes : buf' = Bytes(buf.bytes \o <<byte>>)
    /\ res' = [op |-> "put", n |-> res.n + 1]
    /\ UNCHANGED <<val, section, array, target>>

\* StorageEntry::read on the bytes as they stand
ReadCompact ==
    /\ res.op = "put"
    /\ res' = [op |-> "compact", input |-> buf.bytes, r |-> StorageEntry_read(buf)]
    /\ UNCHANGED <<val, buf, section, array, target>>

\* StorageEntry::read on the same bytes behind the tag 0x0D
ReadLong ==
    /\ res.op = "compact"
    /\ res' = [op |-> "long", input |-> res.input, compact |-> res.r,
               r |-> StorageEntry_read(Bytes(<<SERIALIZE_TYPE_ARRAY>> \o res.input))]
    /\ UNCHANGED <<val, buf, section, array, target>>

InitForms ==
    /\ val = U64(0)
    /\ buf \in {Bytes(<<t>>) : t \in FormTypes}
    /\ section = Section_new
    /\ array = Array_new
    /\ target = "struct"
    /\ res = [op |-> "put", n |-> 0]

NextForms ==
    \/ PutPayload
    \/ ReadCompact
    \/ ReadLong

SpecForms == InitForms /\ [][NextForms]_vars

(***************************************************************************)
(* Arrays from both sides: built through Array::new, with_capacity and     *)
(* push, or decoded from bytes by StorageEntry::read.                      *)
(***************************************************************************)
InitArray == InitTree \/ InitForms

NextArray ==
    \/ ArrayNew
    \/ ArrayWithCapacity
    \/ ArrayPush
    \/ PutPayload
    \/ ReadCompact
    \/ ReadLong

SpecArray == InitArray /\ [][NextArray]_vars

(***************************************************************************)
(* Keys of every length: Section::insert takes any String as the key, and  *)
(* the Section is then written.                                            *)
(***************************************************************************)
\* key lengths: none, short, the longest one byte counts, and one more
KeyLengths == {0, 1, 2, 255, 256}

\* the keys: the letter "a" repeated
Keys == {[i \in 1..n |-> 97] : n \in KeyLengths}

\* section.insert(key, StorageEntry::U8(v))
InsertKey ==
    \E name \in Keys, v \in {1, 56} :
        /\ section' = Section_insert(section, name, Scalar("U8", <<v>>))
        /\ Held(section', array) <= MaxNodes
        /\ res' = [op |-> "insert"]
        /\ buf' = Bytes(<<>>)
        /\ UNCHANGED <<val, array, target>>

NextKeys ==
    \/ InsertKey
    \/ DoWrite

SpecKeys == InitTree /\ [][NextKeys]_vars

(***************************************************************************)
(* The visitor of a record target: from_section hands it a MapDeserializer *)
(* and it calls next_key_seed and next_value_seed, in any order, up to     *)
(* MaxCalls times.  res keeps the MapDeserializer and the calls made.      *)
(***************************************************************************)
MaxCalls == 5

\* the visitor holds a MapDeserializer
Visiting ==
    \/ res.op = "from_section" /\ res.r.st = "Visited"
    \/ res.op = "visit"

\* the MapDeserializer it holds
MapOf == IF res.op = "visit" THEN res.map ELSE res.r.map

\* the calls it has made, each with what it returned
CallsOf == IF res.op = "visit" THEN res.calls ELSE <<>>

\* map.next_key_seed(seed)
NextKeySeed ==
    /\ Visiting
    /\ Len(CallsOf) < MaxCalls
    /\ res' = [op |-> "visit", S |-> res.S, map |-> next_key_seed(MapOf).self,
               calls |-> Append(CallsOf, [call |-> "next_key_seed",
                                           out |-> next_key_seed(MapOf).out])]
    /\ UNCHANGED <<val, buf, section, array, target>>

\* map.next_value_seed(seed)
NextValueSeed ==
    /\ Visiting
    /\ Len(CallsOf) < MaxCalls
    /\ res' = [op |-> "visit", S |-> res.S, map |-> next_value_seed(MapOf).self,
               calls |-> Append(CallsOf, [call |-> "next_value_seed",
                                           out |-> next_value_seed(MapOf).out])]
    /\ UNCHANGED <<val, buf, section, array, target>>

NextVisit ==
    \/ Insert
    \/ FromSection
    \/ NextKeySeed
    \/ NextValueSeed

SpecVisit == InitTree /\ [][NextVisit]_vars

(***************************************************************************)
(* C1                                                                      *)
(***************************************************************************)
\* C1: for every Section S built through the public constructors, read(write(S))
\* succeeds and returns a Section equal to S, with the same keys in the same order.
C1_RoundTripTree ==
    res.op = "read" /\ res.from.op = "write" =>
        /\ res.r.st = "Ok"
        /\ res.r.v = res.from.S

(***************************************************************************)
(* C2                                                                      *)
(***************************************************************************)
\* C2: for every document D that write emits for some Section, read(D) succeeds and
\* write(read(D)) is byte for byte D.
C2_RoundTripBytes ==
    /\ res.op = "read" /\ res.from.op = "write" => res.r.st = "Ok"
    /\ res.op = "rewrite" /\ res.from.from.op = "write" =>
          /\ ~res.w.panic
          /\ res.w.bytes = res.from.input

(***************************************************************************)
(* C3                                                                      *)
(***************************************************************************)
\* v < 2^(8n-2): the range of an n-byte size covers v
Covers(n, v) == (\A i \in 1..(8 - n) : v[i] = 0) /\ v[9 - n] <= 63

\* the smallest of 1, 2, 4, 8 whose range covers v
MinWidth(v) ==
    CHOOSE n \in {1, 2, 4, 8} :
        Covers(n, v) /\ \A m \in {1, 2, 4, 8} : Covers(m, v) => n <= m

\* C3: for every v < 2^62, raw_size::write(v) emits as many bytes as the smallest
\* of the widths 1, 2, 4, 8 that covers v, and raw_size::read of those bytes
\* returns v and consumes exactly them, leaving what lies behind untouched.
C3_VarSizeRoundTrip ==
    Covers(8, val) =>
        /\ res.op = "raw_size::write" =>
              /\ ~res.w.panic
              /\ Len(res.w.bytes) = MinWidth(val)
        /\ res.op = "raw_size::read" =>
              /\ res.r.st = "Ok"
              /\ res.r.v = val
              /\ res.r.buf.bytes = res.from.rest
              /\ Len(res.from.w.bytes) = MinWidth(val)

\* 2^30, the first value that needs eight bytes, read back with a byte behind it
C3_Witness ==
    /\ res.op = "raw_size::read"
    /\ val = <<0, 0, 0, 0, 64, 0, 0, 0>>
    /\ res.from.rest = <<255>>
    /\ Len(res.from.w.bytes) = 8
    /\ res.r.st = "Ok"

(***************************************************************************)
(* C4                                                                      *)
(***************************************************************************)
ErrorKinds ==
    {"UnexpectedEof", "InvalidHeader", "InvalidSerializeType", "InvalidArrayType",
     "StorageEntryTooBig", "WrongTypeSequence"}

IsSuffix(t, B) == Len(t) <= Len(B) /\ t = SubSeq(B, Len(B) - Len(t) + 1, Len(B))

\* C4: for any byte sequence B, read(B) ends with Ok(Section) or with one of the
\* Error values and never panics: no get, slice or advance takes more bytes than
\* remain, and the cursor ends inside B.
C4_ReaderBoundsSafe ==
    res.op = "read" =>
        /\ res.r.st \in {"Ok", "Err"}
        /\ res.r.st = "Err" => res.r.err.kind \in ErrorKinds
        /\ res.r.st \in {"Ok", "Err"} => IsSuffix(res.r.buf.bytes, res.input)

\* a section of one entry whose name declares 254 bytes where one remains
C4_Witness ==
    /\ res.op = "read"
    /\ res.input = CanonicalHeader \o <<4, 254, 0>>
    /\ res.r.st = "Err"
    /\ res.r.err.kind = "UnexpectedEof"

(***************************************************************************)
(* C5                                                                      *)
(***************************************************************************)
\* what the read logged: allocations and completed loop iterations
ReadLog == IF res.op = "read" /\ res.r.st \in {"Ok", "Err"} THEN res.r.buf.log ELSE <<>>

Stores == {i \in 1..Len(ReadLog) : ReadLog[i].ev = "store"}

\* the size that begins at position `at` of B declares more than the bytes behind it
DeclaresTooMany(B, at) ==
    LET c == raw_size_read(Bytes(SubSeq(B, at, Len(B))))
    IN  c.st = "Ok" /\ Lt(U64(remaining(c.buf)), c.v)

\* C5: read terminates on any input of length L; every completed iteration of a
\* section or array loop consumes at least one byte, so at most L entries and
\* elements are ever stored; a section count or array length that declares more
\* than the remaining input can supply ends in an error; and a buffer is allocated
\* only for a length that does not exceed the remaining input.
C5_NoWireDrivenWork ==
    res.op = "read" =>
        /\ res.r.st \in {"Ok", "Err"}
        /\ \A i \in Stores : ReadLog[i].after < ReadLog[i].before
        /\ Cardinality(Stores) <= Len(res.input)
        /\ \A i \in 1..Len(ReadLog) :
              ReadLog[i].ev = "alloc" => Le(ReadLog[i].cap, U64(ReadLog[i].left))
        /\ DeclaresTooMany(res.input, 10) => res.r.st = "Err"
        /\ (Len(res.input) >= 12 /\ SubSeq(res.input, 10, 12) = <<4, 0, 136>>
              /\ DeclaresTooMany(res.input, 13)) => res.r.st = "Err"

\* a section that declares three entries and supplies one, an empty array of u8
C5_Witness ==
    /\ res.op = "read"
    /\ res.input = CanonicalHeader \o <<12, 0, 136, 0, 0>>
    /\ Cardinality(Stores) = 1
    /\ res.r.st = "Err"

(***************************************************************************)
(* C6                                                                      *)
(***************************************************************************)
\* C6: with at least nine bytes StorageBlockHeader::read returns Ok exactly when the
\* version byte is 1 and signature A is 0x01011101 or signature B is 0x01020101, and
\* InvalidHeader otherwise; with fewer than nine bytes it returns UnexpectedEof.
C6_HeaderAcceptance ==
    res.op = "StorageBlockHeader::read" =>
        LET B == res.input
            a == Reverse(SubSeq(B, 1, 4))
            b == Reverse(SubSeq(B, 5, 8))
        IN  IF Len(B) < 9
            THEN res.r.st = "Err" /\ res.r.err.kind = "UnexpectedEof"
            ELSE IF B[9] = 1 /\ (a = PORTABLE_STORAGE_SIGNATUREA
                                   \/ b = PORTABLE_STORAGE_SIGNATUREB)
            THEN res.r.st = "Ok"
            ELSE res.r.st = "Err" /\ res.r.err = InvalidHeader

(***************************************************************************)
(* C7                                                                      *)
(***************************************************************************)
RECURSIVE ArrayWireForm(_)
RECURSIVE EntryWireForm(_)

\* the wire form of a value behind its tag byte, an Array's elements without tags
ArrayWireForm(entry) ==
    CASE entry.tag = "Array" ->
            entry.arr.serialize_type
                \o raw_size_write(BytesMut, U64(Len(entry.arr.array))).bytes
                \o Concat([i \in 1..Len(entry.arr.array) |->
                              ArrayWireForm(entry.arr.array[i])])
      [] entry.tag = "Section" ->
            raw_size_write(BytesMut, U64(Len(entry.sec.entries))).bytes
                \o Concat([i \in 1..Len(entry.sec.entries) |->
                              write_name(BytesMut, entry.sec.entries[i].name).bytes
                                  \o EntryWireForm(entry.sec.entries[i].entry)])
      [] OTHER -> Tail(StorageEntry_write(BytesMut, entry).bytes)

\* the tag byte and the wire form behind it
EntryWireForm(entry) == <<serialize_type(entry)>> \o ArrayWireForm(entry)

\* C7: for every Array of n elements the writer emits the tag 0x0D, the element
\* type with the array flag set, VarSize(n), and then the n element payloads with
\* no tag byte before any of them.
C7_ArrayWireForm ==
    res.op = "write" /\ ~res.w.panic =>
        res.w.bytes = CanonicalHeader \o ArrayWireForm(SectionEntry(res.S))

(***************************************************************************)
(* C8                                                                      *)
(***************************************************************************)
\* C8: for every Section built through the public constructors, write returns
\* without panicking.
C8_WriteInfallible == res.op = "write" => ~res.w.panic

(***************************************************************************)
(* C9                                                                      *)
(***************************************************************************)
\* the i-th name of a document of one-byte names and U8 values, as read_name yields it
WireName(B, i) == from_utf8_lossy(<<B[8 + 4 * i]>>)

\* its i-th value
WireValue(B, i) == B[10 + 4 * i]

\* the last position at which the name k occurs in B
LastOf(B, k) ==
    CHOOSE i \in 1..((Len(B) - 10) \div 4) :
        WireName(B, i) = k /\ \A j \in 1..((Len(B) - 10) \div 4) : WireName(B, j) = k => j <= i

\* C9: a section in which keys repeat decodes without error to a Section that
\* holds one entry per distinct key (keys as read_name yields them), each with the
\* value of the key's last occurrence on the wire; written again, it is one entry
\* per distinct key.
C9_DuplicateKeysLastWins ==
    /\ res.op = "read" =>
          /\ res.r.st = "Ok"
          /\ LET B == res.input
                 entries == res.r.v.entries
             IN  /\ \A i, j \in 1..Len(entries) :
                        i # j => entries[i].name # entries[j].name
                 /\ {entries[i].name : i \in 1..Len(entries)}
                        = {WireName(B, i) : i \in 1..((Len(B) - 10) \div 4)}
                 /\ \A i \in 1..Len(entries) :
                        entries[i].entry
                            = Scalar("U8", <<WireValue(B, LastOf(B, entries[i].name))>>)
    /\ res.op = "rewrite" =>
          LET entries == res.from.r.v.entries
          IN  /\ ~res.w.panic
              /\ res.w.bytes
                    = CanonicalHeader \o <<4 * Len(entries)>>
                        \o Concat([i \in 1..Len(entries) |->
                                      <<Len(entries[i].name)>> \o entries[i].name
                                          \o <<SERIALIZE_TYPE_UINT8, entries[i].entry.num[1]>>])

\* two entries named k, U8(1) and then U8(2), read and written again: one entry, U8(2)
C9_Witness ==
    /\ res.op = "rewrite"
    /\ res.from.input = CanonicalHeader \o <<8, 1, 107, 8, 1, 1, 107, 8, 2>>
    /\ res.w.bytes = CanonicalHeader \o <<4, 1, 107, 8, 2>>

(***************************************************************************)
(* C10                                                                     *)
(***************************************************************************)
\* C10: when the target requests a struct or a map, from_section drives the
\* visitor's visit_map over the Section; when it requests any other form it returns
\* a Custom error and the visitor is never invoked.
C10_FromSectionBinding ==
    res.op = "from_section" =>
        IF target \in {"struct", "map"}
        THEN /\ res.r.st = "Visited"
             /\ res.r.visit = "visit_map"
             /\ res.r.map.iter = res.S.entries
        ELSE /\ res.r.st = "Err"
             /\ res.r.err.kind = "Custom"

(***************************************************************************)
(* C11                                                                     *)
(***************************************************************************)
\* C11: for every type byte t with the array flag and every byte sequence P,
\* decoding 't P' and decoding '0D t P' give the same outcome (the same Array with
\* the same declared type and elements, or the same error) and leave the same
\* unread bytes; 0D followed by a byte without the array flag fails with
\* WrongTypeSequence.
C11_ArrayFormsAgree ==
    res.op = "long" =>
        IF AndFlag(res.input[1]) = SERIALIZE_FLAG_ARRAY
        THEN /\ res.r.st = res.compact.st
             /\ res.r.st = "Ok" => /\ res.r.v = res.compact.v
                                   /\ res.r.v.tag = "Array"
                                   /\ res.r.v.arr.serialize_type = <<res.input[1]>>
             /\ res.r.st = "Err" => res.r.err = res.compact.err
             /\ res.r.st \in {"Ok", "Err"} => res.r.buf.bytes = res.compact.buf.bytes
        ELSE /\ res.r.st = "Err"
             /\ res.r.err = WrongTypeSequence

\* an array of two u8, 4 and 8, with one byte left behind it, in both forms
C11_Witness ==
    /\ res.op = "long"
    /\ res.input = <<136, 8, 4, 8, 0>>
    /\ res.r.st = "Ok"
    /\ res.r.v.arr.array = <<Scalar("U8", <<4>>), Scalar("U8", <<8>>)>>
    /\ res.r.buf.bytes = <<0>>

(***************************************************************************)
(* C12                                                                     *)
(***************************************************************************)
\* C12: raw_size::write(buf, v) panics, with no byte appended to buf, for every
\* v >= 2^62, and does not panic for any v <= 2^62 - 1; 2^62 - 1 is written in
\* eight bytes.
C12_VarSizeUpperBound ==
    res.op = "raw_size::write" =>
        /\ res.w.panic <=> ~Covers(8, val)
        /\ res.w.panic => res.w.bytes = <<>>
        /\ val = <<63, 255, 255, 255, 255, 255, 255, 255>> => Len(res.w.bytes) = 8

\* 2^62, the first value that is too big
C12_Witness ==
    /\ res.op = "raw_size::write"
    /\ val = <<64, 0, 0, 0, 0, 0, 0, 0>>
    /\ res.w.panic
    /\ buf.bytes = <<>>

(***************************************************************************)
(* C13                                                                     *)
(***************************************************************************)
\* C13: push(e) returns Ok and appends e when the array has no element type yet or
\* when e's discriminant equals the declared element type, and returns Err exactly
\* when e's discriminant differs from the declared element type; so k pushes of one
\* variant onto a new Array give len() == k.
C13_PushSameType ==
    res.op = "push" =>
        /\ res.ok =>
              /\ array.array # <<>>
              /\ serialize_type(array.array[Len(array.array)]) = res.type
        /\ ~res.ok =>
              /\ array.serialize_type # None
              /\ AndNotFlag(array.serialize_type[1]) # res.type

(***************************************************************************)
(* C14                                                                     *)
(***************************************************************************)
RECURSIVE Homogeneous(_)
\* every Array in the value, at any depth: when it has elements its declared type
\* carries the array flag and is, without the flag, the serialize_type() of every
\* element; it has no declared type only when it has no element
Homogeneous(entry) ==
    CASE entry.tag = "Array" ->
            /\ entry.arr.array # <<>> =>
                  /\ entry.arr.serialize_type # None
                  /\ AndFlag(entry.arr.serialize_type[1]) = SERIALIZE_FLAG_ARRAY
                  /\ \A i \in 1..Len(entry.arr.array) :
                        serialize_type(entry.arr.array[i])
                            = AndNotFlag(entry.arr.serialize_type[1])
            /\ entry.arr.serialize_type = None => entry.arr.array = <<>>
            /\ \A i \in 1..Len(entry.arr.array) : Homogeneous(entry.arr.array[i])
      [] entry.tag = "Section" ->
            \A i \in 1..Len(entry.sec.entries) : Homogeneous(entry.sec.entries[i].entry)
      [] OTHER -> TRUE

\* C14: every Array reached through Array::new, with_capacity and push, and every
\* Array a successful read returns, is homogeneous: non-empty means a declared type
\* with the array flag that every element's serialize_type() matches, and the
\* declared type is absent only in an empty array.
C14_ArrayHomogeneous ==
    /\ Homogeneous(ArrayEntry(array))
    /\ res.op \in {"compact", "long"} /\ res.r.st = "Ok" => Homogeneous(res.r.v)

\* an array of one array of u8 holding 4, as read from 8D 04 88 04 04
C14_Witness ==
    /\ res.op = "compact"
    /\ res.input = <<141, 4, 136, 4, 4>>
    /\ res.r.st = "Ok"
    /\ res.r.v.arr.array[1].arr.array = <<Scalar("U8", <<4>>)>>

(***************************************************************************)
(* C15                                                                     *)
(***************************************************************************)
\* C15: for every array type byte t whose value without the array flag is not one
\* of the tags 1..13, and for every declared length, decoding the array fails
\* (with InvalidSerializeType) and returns no Array; no Array that read returns
\* carries an element type outside 1..13.
C15_ArrayElementTypeValidated ==
    res.op = "compact" /\ AndFlag(res.input[1]) = SERIALIZE_FLAG_ARRAY =>
        /\ AndNotFlag(res.input[1]) \notin 1..13 =>
              /\ res.r.st = "Err"
              /\ raw_size_read(Bytes(Tail(res.input))).st = "Ok" =>
                    res.r.err.kind = "InvalidSerializeType"
        /\ res.r.st = "Ok" => AndNotFlag(res.r.v.arr.serialize_type[1]) \in 1..13

(***************************************************************************)
(* C16                                                                     *)
(***************************************************************************)
RECURSIVE NamesRecovered(_, _, _)
\* from position p of the bytes, every entry begins with one byte that is the
\* length of its key and then the whole key; the entries are U8 values, two bytes
NamesRecovered(bytes, p, entries) ==
    \/ entries = <<>>
    \/ /\ bytes[p] = Len(Head(entries).name)
       /\ SubSeq(bytes, p + 1, p + bytes[p]) = Head(entries).name
       /\ NamesRecovered(bytes, p + 1 + Len(Head(entries).name) + 2, Tail(entries))

\* C16: for every entry of every Section that Section::insert accepts, the writer
\* emits one byte equal to the key's byte length and then exactly that many key
\* bytes, so that reading 'length byte, then that many bytes' recovers the whole
\* key; every key a Section holds has a byte length in 1..255.
C16_NameLengthPrefix ==
    /\ \A i \in 1..Len(section.entries) : Len(section.entries[i].name) \in 1..255
    /\ res.op = "write" /\ ~res.w.panic =>
          NamesRecovered(res.w.bytes, PORTABLE_STORAGE_BLOCK_HEADER_LENGTH + 2,
                         res.S.entries)

(***************************************************************************)
(* C17                                                                     *)
(***************************************************************************)
\* the i-th call was next_key_seed and returned a key
GaveKey(i) ==
    /\ CallsOf[i].call = "next_key_seed"
    /\ CallsOf[i].out.some # None

\* how many keys the first i calls returned
KeysGiven(i) == Cardinality({j \in 1..i : GaveKey(j)})

\* the visitor entry point of each variant
VisitOf(tag) ==
    CASE tag = "U64" -> "visit_u64" [] tag = "U32" -> "visit_u32"
      [] tag = "U16" -> "visit_u16" [] tag = "U8" -> "visit_u8"
      [] tag = "I64" -> "visit_i64" [] tag = "I32" -> "visit_i32"
      [] tag = "I16" -> "visit_i16" [] tag = "I8" -> "visit_i8"
      [] tag = "Double" -> "visit_f64" [] tag = "Bool" -> "visit_bool"
      [] tag = "Buf" -> "visit_byte_buf" [] tag = "Array" -> "visit_seq"
      [] tag = "Section" -> "visit_map"

\* the call returned the entry's value through the entry point of its variant
Delivers(out, entry) ==
    /\ out.st = "Ok"
    /\ out.visited.visit = VisitOf(entry.tag)
    /\ CASE entry.tag = "Bool" -> out.visited.bool = entry.bool
         [] entry.tag = "Buf" -> out.visited.bytes = entry.bytes
         [] entry.tag = "Array" -> out.visited.seq.iter = entry.arr.array
         [] entry.tag = "Section" -> out.visited.map.iter = entry.sec.entries
         [] OTHER -> out.visited.num = entry.num

\* C17: for a record target, next_key_seed returns the Section's keys in insertion
\* order, each once, and None after the last; a next_value_seed call right after a
\* next_key_seed call that returned a key yields the value stored under that key,
\* through the visitor entry point of the value's variant; a next_value_seed call
\* with no key pending returns a Custom error.
C17_VisitInOrder ==
    res.op = "visit" =>
        \A i \in 1..Len(CallsOf) :
            /\ GaveKey(i) =>
                  /\ KeysGiven(i) <= Len(res.S.entries)
                  /\ CallsOf[i].out.some[1]
                        = [visit |-> "visit_str", key |-> res.S.entries[KeysGiven(i)].name]
            /\ CallsOf[i].call = "next_key_seed" =>
                  /\ CallsOf[i].out.st = "Ok"
                  /\ CallsOf[i].out.some = None <=> KeysGiven(i - 1) = Len(res.S.entries)
            /\ CallsOf[i].call = "next_value_seed" =>
                  /\ (i > 1 /\ GaveKey(i - 1)) =>
                        Delivers(CallsOf[i].out, res.S.entries[KeysGiven(i)].entry)
                  /\ (\A j \in 1..(i - 1) :
                         GaveKey(j) =>
                             \E k \in (j + 1)..(i - 1) : CallsOf[k].call = "next_value_seed") =>
                        /\ CallsOf[i].out.st = "Err"
                        /\ CallsOf[i].out.err.kind = "Custom"

\* {a: U8(56), b: U64(1337)} visited as a record: key, value, key, value, None
C17_Witness ==
    /\ res.op = "visit"
    /\ res.S.entries = <<[name |-> <<97>>, entry |-> Scalar("U8", <<56>>)],
                         [name |-> <<98>>, entry |-> Scalar("U64", U64(1337))]>>
    /\ Len(CallsOf) = 5
    /\ CallsOf[1].out.some = <<[visit |-> "visit_str", key |-> <<97>>]>>
    /\ CallsOf[2].call = "next_value_seed"
    /\ CallsOf[2].out.visited = [visit |-> "visit_u8", num |-> <<56>>]
    /\ CallsOf[3].call = "next_key_seed"
    /\ CallsOf[4].call = "next_value_seed"
    /\ CallsOf[4].out.visited = [visit |-> "visit_u64", num |-> U64(1337)]
    /\ CallsOf[5].call = "next_key_seed"
    /\ CallsOf[5].out.some = None

====
